---- MODULE Spec2Model ----
(***************************************************************************)
(* Model of src/factory.rs: the blanket implementation of Factory<B> for   *)
(* every MemoryAllocator<B>.  Each Factory operation is a sequence of      *)
(* calls into the device and into the allocator; every such call is one    *)
(* step of the model, so that the order of the calls and the states        *)
(* between them are visible.  Allocator instances are the processes: an    *)
(* operation borrows its allocator mutably (&mut self), hence each         *)
(* allocator runs at most one operation at a time.  Spec runs one          *)
(* allocator; SpecShared runs two on the shared device, their operations   *)
(* interleaving call by call; SpecAccess adds the callers' writes through  *)
(* Item::borrow_mut.                                                       *)
(***************************************************************************)
EXTENDS Integers, Sequences, FiniteSets, TLC

\* ---------------------------------------------------------------- bounds
MaxRaw == 3        \* raw resources the device can hand out in one run
MemSize == 3       \* bytes in the memory object of an allocator
MaxSize == 2       \* largest size a descriptor asks for
MaxShared == 2     \* raw resources the device hands out in a run of SpecShared

Allocators == {1, 2}
Requests == {"dedicated", "shared"}
Sizes == 1..MaxSize
RawIds == 1..MaxRaw
BlockIds == 1..MaxRaw

BufferDescs == [size : Sizes, usage : {"VERTEX"}]
ImageDescs == [kind : Sizes, level : {1}, format : {"Rgba8"},
               tiling : {"Optimal"}, usage : {"SAMPLED"}, view_caps : {"none"}]

BufferCreationErrors == {"UnsupportedUsage"}
ImageCreationErrors == {"UnsupportedKind"}
MemoryErrors == {"OutOfMemory"}

\* ------------------------------------------------------------ null values
NoBlock == [id |-> 0, mem |-> 0, start |-> 0, end |-> 0]
NoReqs == [size |-> 0, alignment |-> 0]
NoItem == [kind |-> "none", raw |-> 0, block |-> NoBlock]
NoError == [tag |-> "none", cause |-> "none"]
NoResult == [tag |-> "none", item |-> NoItem, error |-> NoError]
NoResource == [state |-> "none", kind |-> "none", size |-> 0,
               mem |-> 0, offset |-> 0, destroys |-> 0]
NoOp == [name |-> "none", request |-> "none", raw |-> 0, reqs |-> NoReqs,
         block |-> NoBlock, item |-> NoItem, calls |-> <<>>, result |-> NoResult]

VARIABLES
    resources,   \* device: raw id -> state of that raw buffer or image
    allocated,   \* allocator -> blocks it has handed out and not got back
    freeCount,   \* block serial -> free calls observed for it (saturates at 2)
    items,       \* the Items (bound resources) callers currently own
    failed,      \* whether an alloc call or a bind call has failed so far
    pc,          \* allocator -> position of its operation in flight
    op           \* allocator -> locals, observed calls and result of that operation

vars == <<resources, allocated, freeCount, items, failed, pc, op>>

\* --------------------------------------------------------- FactoryError
FromMemoryError_as_creation(error) == [tag |-> "BufferCreationError", cause |-> error]
FromMemoryError(error) == [tag |-> "MemoryError", cause |-> error]
FromBufferCreationError_as_memory(error) == [tag |-> "MemoryError", cause |-> error]
FromBufferCreationError(error) == [tag |-> "BufferCreationError", cause |-> error]
FromImageCreationError_as_memory(error) == [tag |-> "MemoryError", cause |-> error]
FromImageCreationError(error) == [tag |-> "ImageCreationError", cause |-> error]

Ok(item) == [tag |-> "Ok", item |-> item, error |-> NoError]
Err(error) == [tag |-> "Err", item |-> NoItem, error |-> error]
Panicked == [tag |-> "Panic", item |-> NoItem, error |-> NoError]

\* ------------------------------------------------------------ Block, Item
BlockMemory(b) == b.mem
BlockRange(b) == [start |-> b.start, end |-> b.end]

Item_raw(it) == it.raw
Item_block(it) == it.block
Item_borrow(it) == it.raw
Item_memory(it) == BlockMemory(it.block)
Item_range_from_zero(it) == [start |-> 0, end |-> it.block.end - it.block.start]
Item_range(it) == BlockRange(it.block)

\* --------------------------------------------------- collaborators' stubs
Call(fn, raw, mem, offset, request, reqs, block, ok) ==
    [fn |-> fn, raw |-> raw, mem |-> mem, offset |-> offset,
     request |-> request, reqs |-> reqs, block |-> block, ok |-> ok]

FreshRaws == {r \in RawIds : resources[r].state = "none"}
FreshRaw == CHOOSE r \in FreshRaws : \A q \in FreshRaws : r <= q

DeviceRequirements(r) ==
    [size |-> resources[r].size,
     alignment |-> IF resources[r].kind = "image" THEN 2 ELSE 1]

Overlaps(b, c) == b.mem = c.mem /\ b.start < c.end /\ c.start < b.end

\* the blocks alloc may return; `id` is the serial of the alloc call, which
\* tells apart two blocks that occupy the same range at different times
AllocChoices(a, id, reqs) ==
    {b \in [id : {id}, mem : {a}, start : 0..MemSize, end : 1..MemSize] :
        /\ b.end = b.start + reqs.size
        /\ b.start % reqs.alignment = 0
        /\ \A c \in allocated[a] : ~Overlaps(b, c)}

Sat(n) == IF n >= 2 THEN 2 ELSE n + 1

Ready_shared_borrow(a) == pc[a] # "panicked"
Ready(a) == pc[a] = "idle"

Init ==
    /\ resources = [r \in RawIds |-> NoResource]
    /\ allocated = [a \in Allocators |-> {}]
    /\ freeCount = [b \in BlockIds |-> 0]
    /\ items = {}
    /\ failed = FALSE
    /\ pc = [a \in Allocators |-> "idle"]
    /\ op = [a \in Allocators |-> NoOp]

\* ------------------------------------------------------------- creation
\* let uraw = device.create_*(descriptors)?;
CreateUnbound(a, name, kind, request, size, error) ==
    /\ Ready(a)
    /\ \/ /\ FreshRaws # {}
          /\ resources' = [resources EXCEPT ![FreshRaw] =
                 [NoResource EXCEPT !.state = "unbound", !.kind = kind, !.size = size]]
          /\ pc' = [pc EXCEPT ![a] = "created"]
          /\ op' = [op EXCEPT ![a] = [NoOp EXCEPT !.name = name, !.request = request,
                 !.raw = FreshRaw,
                 !.calls = <<Call("create", FreshRaw, 0, 0, "none", NoReqs, NoBlock, TRUE)>>]]
       \/ /\ resources' = resources
          /\ pc' = [pc EXCEPT ![a] = "done"]
          /\ op' = [op EXCEPT ![a] = [NoOp EXCEPT !.name = name, !.request = request,
                 !.calls = <<Call("create", 0, 0, 0, "none", NoReqs, NoBlock, FALSE)>>,
                 !.result = Err(error)]]
    /\ UNCHANGED <<allocated, freeCount, items, failed>>

\* let reqs = device.get_*_requirements(&uraw);
GetRequirements(a, name) ==
    /\ pc[a] = "created"
    /\ op[a].name = name
    /\ pc' = [pc EXCEPT ![a] = "queried"]
    /\ op' = [op EXCEPT ![a].reqs = DeviceRequirements(op[a].raw),
                        ![a].calls = Append(@,
                            Call("requirements", op[a].raw, 0, 0, "none",
                                 DeviceRequirements(op[a].raw), NoBlock, TRUE))]
    /\ UNCHANGED <<resources, allocated, freeCount, items, failed>>

\* variant of Alloc that hands the allocator a request of its own choosing
Alloc_default_request(a, name) ==
    /\ pc[a] = "queried"
    /\ op[a].name = name
    /\ \/ \E b \in AllocChoices(a, op[a].raw, op[a].reqs) :
            /\ allocated' = [allocated EXCEPT ![a] = @ \cup {b}]
            /\ failed' = failed
            /\ pc' = [pc EXCEPT ![a] = "allocated"]
            /\ op' = [op EXCEPT ![a].block = b,
                                ![a].calls = Append(@,
                                    Call("alloc", 0, 0, 0, "dedicated", op[a].reqs, b, TRUE))]
       \/ \E e \in MemoryErrors :
            /\ allocated' = allocated
            /\ failed' = TRUE
            /\ pc' = [pc EXCEPT ![a] = "done"]
            /\ op' = [op EXCEPT ![a].result = Err(FromMemoryError(e)),
                                ![a].calls = Append(@,
                                    Call("alloc", 0, 0, 0, "dedicated", op[a].reqs,
                                         NoBlock, FALSE))]
    /\ UNCHANGED <<resources, freeCount, items>>

\* variant of Alloc that destroys the raw resource before propagating the error
Alloc_rollback(a, name) ==
    /\ pc[a] = "queried"
    /\ op[a].name = name
    /\ \/ \E b \in AllocChoices(a, op[a].raw, op[a].reqs) :
            /\ allocated' = [allocated EXCEPT ![a] = @ \cup {b}]
            /\ resources' = resources
            /\ failed' = failed
            /\ pc' = [pc EXCEPT ![a] = "allocated"]
            /\ op' = [op EXCEPT ![a].block = b,
                                ![a].calls = Append(@,
                                    Call("alloc", 0, 0, 0, op[a].request, op[a].reqs, b, TRUE))]
       \/ \E e \in MemoryErrors :
            /\ allocated' = allocated
            /\ resources' = [resources EXCEPT ![op[a].raw] =
                   [NoResource EXCEPT !.state = "destroyed", !.destroys = 1]]
            /\ failed' = TRUE
            /\ pc' = [pc EXCEPT ![a] = "done"]
            /\ op' = [op EXCEPT ![a].result = Err(FromMemoryError(e)),
                                ![a].calls = Append(@,
                                    Call("alloc", 0, 0, 0, op[a].request, op[a].reqs,
                                         NoBlock, FALSE))]
    /\ UNCHANGED <<freeCount, items>>

\* let block = self.alloc(device, request, reqs)?;
Alloc(a, name) ==
    /\ pc[a] = "queried"
    /\ op[a].name = name
    /\ \/ \E b \in AllocChoices(a, op[a].raw, op[a].reqs) :
            /\ allocated' = [allocated EXCEPT ![a] = @ \cup {b}]
            /\ failed' = failed
            /\ pc' = [pc EXCEPT ![a] = "allocated"]
            /\ op' = [op EXCEPT ![a].block = b,
                                ![a].calls = Append(@,
                                    Call("alloc", 0, 0, 0, op[a].request, op[a].reqs, b, TRUE))]
       \/ \E e \in MemoryErrors :
            /\ allocated' = allocated
            /\ failed' = TRUE
            /\ pc' = [pc EXCEPT ![a] = "done"]
            /\ op' = [op EXCEPT ![a].result = Err(FromMemoryError(e)),
                                ![a].calls = Append(@,
                                    Call("alloc", 0, 0, 0, op[a].request, op[a].reqs,
                                         NoBlock, FALSE))]
    /\ UNCHANGED <<resources, freeCount, items>>

\* the arguments of the bind call: block.memory(), block.range().start
BindMemory(b) == BlockMemory(b)
BindOffset_end(b) == BlockRange(b).end
BindOffset(b) == BlockRange(b).start

\* .unwrap() on the Err of the bind call: the thread panics, the operation
\* yields no value
unwrap_Err_recovered == [pc |-> "done", result |-> Err(FromMemoryError("OutOfMemory"))]
unwrap_Err == [pc |-> "panicked", result |-> Panicked]

\* let raw = device.bind_*_memory(block.memory(), block.range().start, uraw).unwrap();
\* Ok(Item { raw, block })
Bind(a, name, kind) ==
    /\ pc[a] = "allocated"
    /\ op[a].name = name
    /\ LET r == op[a].raw
           b == op[a].block
           mem == BindMemory(b)
           offset == BindOffset(b)
           it == [kind |-> kind, raw |-> r, block |-> b]
       IN \/ /\ resources' = [resources EXCEPT ![r].state = "bound",
                                               ![r].mem = mem, ![r].offset = offset]
             /\ items' = items \cup {it}
             /\ failed' = failed
             /\ pc' = [pc EXCEPT ![a] = "done"]
             /\ op' = [op EXCEPT ![a].item = it, ![a].result = Ok(it),
                                 ![a].calls = Append(@,
                                     Call("bind", r, mem, offset, "none", NoReqs, NoBlock, TRUE))]
          \/ /\ UNCHANGED <<resources, items>>
             /\ failed' = TRUE
             /\ pc' = [pc EXCEPT ![a] = unwrap_Err.pc]
             /\ op' = [op EXCEPT ![a].result = unwrap_Err.result,
                                 ![a].calls = Append(@,
                                     Call("bind", r, mem, offset, "none", NoReqs, NoBlock, FALSE))]
    /\ UNCHANGED <<allocated, freeCount>>

\* ------------------------------------------------------------- teardown
Unit == [tag |-> "Unit", item |-> NoItem, error |-> NoError]

CreatedBy(a, it) == BlockMemory(it.block) = a

\* variant of DestroyRaw that releases the block where the device destroy belongs
DestroyRaw_free_first(a, name, it) ==
    /\ Ready(a)
    /\ it \in items
    /\ CreatedBy(a, it)
    /\ items' = items \ {it}
    /\ allocated' = [allocated EXCEPT ![a] = @ \ {it.block}]
    /\ freeCount' = [freeCount EXCEPT ![it.block.id] = Sat(@)]
    /\ pc' = [pc EXCEPT ![a] = "destroyed"]
    /\ op' = [op EXCEPT ![a] = [NoOp EXCEPT !.name = name, !.item = it,
                 !.raw = it.raw, !.block = it.block,
                 !.calls = <<Call("free", 0, 0, 0, "none", NoReqs, it.block, TRUE)>>]]
    /\ UNCHANGED <<resources, failed>>

\* variant of DestroyRaw that never calls the device
DestroyRaw_skipped(a, name, it) ==
    /\ Ready(a)
    /\ it \in items
    /\ CreatedBy(a, it)
    /\ items' = items \ {it}
    /\ pc' = [pc EXCEPT ![a] = "destroyed"]
    /\ op' = [op EXCEPT ![a] = [NoOp EXCEPT !.name = name, !.item = it,
                 !.raw = it.raw, !.block = it.block]]
    /\ UNCHANGED <<resources, allocated, freeCount, failed>>

\* variant of DestroyRaw that takes the Item by reference: the caller keeps it
DestroyRaw_by_reference(a, name, it) ==
    /\ Ready(a)
    /\ it \in items
    /\ CreatedBy(a, it)
    /\ items' = items
    /\ resources' = [resources EXCEPT ![it.raw] =
           [NoResource EXCEPT !.state = "destroyed", !.destroys = Sat(resources[it.raw].destroys)]]
    /\ pc' = [pc EXCEPT ![a] = "destroyed"]
    /\ op' = [op EXCEPT ![a] = [NoOp EXCEPT !.name = name, !.item = it,
                 !.raw = it.raw, !.block = it.block,
                 !.calls = <<Call("destroy", it.raw, 0, 0, "none", NoReqs, NoBlock, TRUE)>>]]
    /\ UNCHANGED <<allocated, freeCount, failed>>

\* device.destroy_*(item.raw);   the Item is moved into the call
DestroyRaw(a, name, it) ==
    /\ Ready(a)
    /\ it \in items
    /\ CreatedBy(a, it)
    /\ items' = items \ {it}
    /\ resources' = [resources EXCEPT ![it.raw] =
           [NoResource EXCEPT !.state = "destroyed", !.destroys = Sat(resources[it.raw].destroys)]]
    /\ pc' = [pc EXCEPT ![a] = "destroyed"]
    /\ op' = [op EXCEPT ![a] = [NoOp EXCEPT !.name = name, !.item = it,
                 !.raw = it.raw, !.block = it.block,
                 !.calls = <<Call("destroy", it.raw, 0, 0, "none", NoReqs, NoBlock, TRUE)>>]]
    /\ UNCHANGED <<allocated, freeCount, failed>>

\* variant of FreeBlock that drops the block without giving it back
FreeBlock_forgotten(a, name) ==
    /\ pc[a] = "destroyed"
    /\ op[a].name = name
    /\ pc' = [pc EXCEPT ![a] = "done"]
    /\ op' = [op EXCEPT ![a].result = Unit]
    /\ UNCHANGED <<resources, allocated, freeCount, items, failed>>

\* variant of FreeBlock that gives back every block of the allocator
FreeBlock_everything(a, name) ==
    /\ pc[a] = "destroyed"
    /\ op[a].name = name
    /\ allocated' = [allocated EXCEPT ![a] = {}]
    /\ freeCount' = [b \in BlockIds |->
                        IF \E c \in allocated[a] : c.id = b THEN Sat(freeCount[b])
                        ELSE freeCount[b]]
    /\ pc' = [pc EXCEPT ![a] = "done"]
    /\ op' = [op EXCEPT ![a].result = Unit,
                        ![a].calls = Append(@,
                            Call("free", 0, 0, 0, "none", NoReqs, op[a].item.block, TRUE))]
    /\ UNCHANGED <<resources, items, failed>>

\* self.free(device, item.block);
FreeBlock(a, name) ==
    /\ pc[a] = "destroyed"
    /\ op[a].name = name
    /\ allocated' = [allocated EXCEPT ![a] = @ \ {op[a].item.block}]
    /\ freeCount' = [freeCount EXCEPT ![op[a].item.block.id] = Sat(@)]
    /\ pc' = [pc EXCEPT ![a] = "done"]
    /\ op' = [op EXCEPT ![a].result = Unit,
                        ![a].calls = Append(@,
                            Call("free", 0, 0, 0, "none", NoReqs, op[a].item.block, TRUE))]
    /\ UNCHANGED <<resources, items, failed>>

\* the operation returns to its caller, who takes the result; the allocator's
\* mutable borrow ends and its locals are gone
Return(a, name) ==
    /\ pc[a] = "done"
    /\ op[a].name = name
    /\ pc' = [pc EXCEPT ![a] = "idle"]
    /\ op' = [op EXCEPT ![a] = NoOp]
    /\ UNCHANGED <<resources, allocated, freeCount, items, failed>>

\* ------------------------------------------- the four Factory operations
create_buffer_device_create(a) ==
    \E request \in Requests, d \in BufferDescs, e \in BufferCreationErrors :
        CreateUnbound(a, "create_buffer", "buffer", request, d.size,
                      FromBufferCreationError(e))
create_buffer_get_requirements(a) == GetRequirements(a, "create_buffer")
create_buffer_alloc(a) == Alloc(a, "create_buffer")
create_buffer_bind(a) == Bind(a, "create_buffer", "buffer")
create_buffer_return(a) == Return(a, "create_buffer")

create_image_device_create(a) ==
    \E request \in Requests, d \in ImageDescs, e \in ImageCreationErrors :
        CreateUnbound(a, "create_image", "image", request, d.kind * d.level,
                      FromImageCreationError(e))
create_image_get_requirements(a) == GetRequirements(a, "create_image")
create_image_alloc(a) == Alloc(a, "create_image")
create_image_bind(a) == Bind(a, "create_image", "image")
create_image_return(a) == Return(a, "create_image")

destroy_buffer_device_destroy(a) ==
    \E buffer \in items : buffer.kind = "buffer" /\ DestroyRaw(a, "destroy_buffer", buffer)
destroy_buffer_free(a) == FreeBlock(a, "destroy_buffer")
destroy_buffer_return(a) == Return(a, "destroy_buffer")

destroy_image_device_destroy(a) ==
    \E image \in items : image.kind = "image" /\ DestroyRaw(a, "destroy_image", image)
destroy_image_free(a) == FreeBlock(a, "destroy_image")
destroy_image_return(a) == Return(a, "destroy_image")

create_buffer(a) ==
    \/ create_buffer_device_create(a)
    \/ create_buffer_get_requirements(a)
    \/ create_buffer_alloc(a)
    \/ create_buffer_bind(a)
    \/ create_buffer_return(a)

create_image(a) ==
    \/ create_image_device_create(a)
    \/ create_image_get_requirements(a)
    \/ create_image_alloc(a)
    \/ create_image_bind(a)
    \/ create_image_return(a)

destroy_buffer(a) ==
    \/ destroy_buffer_device_destroy(a)
    \/ destroy_buffer_free(a)
    \/ destroy_buffer_return(a)

destroy_image(a) ==
    \/ destroy_image_device_destroy(a)
    \/ destroy_image_free(a)
    \/ destroy_image_return(a)

\* one allocator instance serving its callers on the device
Next ==
    \/ create_buffer(1)
    \/ create_image(1)
    \/ destroy_buffer(1)
    \/ destroy_image(1)

Spec == Init /\ [][Next]_vars

\* two allocator instances on the one device, the first serving buffers and
\* the second images: their operations interleave call by call; callers
\* start no create once the device has handed out MaxShared raw resources
WithinBudget == \E r \in FreshRaws : r <= MaxShared

NextShared ==
    \/ WithinBudget /\ create_buffer_device_create(1)
    \/ create_buffer_get_requirements(1)
    \/ create_buffer_alloc(1)
    \/ create_buffer_bind(1)
    \/ create_buffer_return(1)
    \/ destroy_buffer(1)
    \/ WithinBudget /\ create_image_device_create(2)
    \/ create_image_get_requirements(2)
    \/ create_image_alloc(2)
    \/ create_image_bind(2)
    \/ create_image_return(2)
    \/ destroy_image(2)

SpecShared == Init /\ [][NextShared]_vars

\* ------------------------------------------------- access through &mut I
\* borrow_mut hands the caller `&mut self.raw`; the caller can write through
\* it, e.g. std::mem::swap(x.borrow_mut(), y.borrow_mut()) on two Items of
\* the same type.
Item_borrow_mut(x, y) ==
    /\ x \in items /\ y \in items
    /\ x # y
    /\ x.kind = y.kind
    /\ items' = (items \ {x, y}) \cup {[x EXCEPT !.raw = y.raw], [y EXCEPT !.raw = x.raw]}
    /\ UNCHANGED <<resources, allocated, freeCount, pc, op, failed>>

NextAccess == Next \/ \E x \in items, y \in items : Item_borrow_mut(x, y)

SpecAccess == Init /\ [][NextAccess]_vars

\* ================================================================ claims
Done(a) == pc[a] = "done"
Creating(a) == op[a].name \in {"create_buffer", "create_image"}
Destroying(a) == op[a].name \in {"destroy_buffer", "destroy_image"}
Fns(a) == [i \in DOMAIN op[a].calls |-> op[a].calls[i].fn]
Failed(a, fn) == \E i \in DOMAIN op[a].calls : op[a].calls[i].fn = fn /\ ~op[a].calls[i].ok
Outstanding == UNION {allocated[a] : a \in Allocators}

\* C1: a destroy of a created Item makes exactly one device destroy call, on
\* the Item's raw resource, and exactly one allocator free call, on the
\* Item's block, the destroy first: between the two calls the raw resource
\* is destroyed once and the block not yet freed, at the end both counts are 1.
C1_DestroyThenFree ==
    \A a \in Allocators :
        /\ (pc[a] = "destroyed") =>
              /\ Fns(a) = <<"destroy">>
              /\ op[a].calls[1].raw = op[a].item.raw
              /\ resources[op[a].item.raw].destroys = 1
              /\ freeCount[op[a].item.block.id] = 0
        /\ (Done(a) /\ Destroying(a)) =>
              /\ Fns(a) = <<"destroy", "free">>
              /\ op[a].calls[1].raw = op[a].item.raw
              /\ op[a].calls[2].block = op[a].item.block
              /\ resources[op[a].item.raw].destroys = 1
              /\ freeCount[op[a].item.block.id] = 1

C1_Witness ==
    \E a \in Allocators : Done(a) /\ Destroying(a) /\ Len(op[a].calls) = 2

\* C2: every raw resource that is alive and bound on the device is held by
\* an Item whose block is the one it was bound to, and that block is still
\* outstanding at its allocator and has never been freed.
C2_NoReleaseWhileBound ==
    \A r \in RawIds :
        resources[r].state = "bound" =>
            \E it \in items :
                /\ it.raw = r
                /\ Item_memory(it) = resources[r].mem
                /\ Item_range(it).start = resources[r].offset
                /\ it.block \in Outstanding
                /\ freeCount[it.block.id] = 0

C2_Witness ==
    \E r \in RawIds, b \in BlockIds : resources[r].state = "bound" /\ freeCount[b] = 1

\* C3: a create in which every collaborator call succeeded returns Ok with
\* an Item whose memory() and range() are those of the block the alloc call
\* of that same operation returned.
C3_ItemReportsAllocatedBlock ==
    \A a \in Allocators :
        /\ (Done(a) /\ Creating(a) /\ \A i \in DOMAIN op[a].calls : op[a].calls[i].ok) =>
              op[a].result.tag = "Ok"
        /\ (Done(a) /\ op[a].result.tag = "Ok") =>
              /\ Len(op[a].calls) >= 3
              /\ op[a].calls[3].fn = "alloc"
              /\ op[a].calls[3].ok
              /\ Item_memory(op[a].result.item) = BlockMemory(op[a].calls[3].block)
              /\ Item_range(op[a].result.item) = BlockRange(op[a].calls[3].block)

C3_Witness ==
    \E a \in Allocators :
        Done(a) /\ op[a].result.tag = "Ok" /\ Item_range(op[a].result.item).start > 0

\* C4: when the device's create call fails, the operation ends at once with
\* Err tagged BufferCreationError (create_buffer) or ImageCreationError
\* (create_image); the create call is the only collaborator call it made.
C4_CreateFailurePropagates ==
    \A a \in Allocators :
        Failed(a, "create") =>
            /\ Done(a)
            /\ Fns(a) = <<"create">>
            /\ op[a].result.tag = "Err"
            /\ op[a].result.item = NoItem
            /\ op[a].name = "create_buffer" => op[a].result.error.tag = "BufferCreationError"
            /\ op[a].name = "create_image" => op[a].result.error.tag = "ImageCreationError"

C4_Witness ==
    \E a \in Allocators : Failed(a, "create") /\ op[a].name = "create_buffer"

\* C5: when alloc fails after a successful device create, the operation
\* ends with Err tagged MemoryError, having made no bind and no free call,
\* and no Item holds the raw resource.
C5_AllocFailurePropagates ==
    \A a \in Allocators :
        Failed(a, "alloc") =>
            /\ Done(a)
            /\ Fns(a) = <<"create", "requirements", "alloc">>
            /\ op[a].result.tag = "Err"
            /\ op[a].result.error.tag = "MemoryError"
            /\ op[a].result.item = NoItem
            /\ \A it \in items : it.raw # op[a].raw

C5_Witness ==
    \E a \in Allocators : Failed(a, "alloc") /\ op[a].name = "create_image"

\* C6: the bind call is made on the raw resource the same operation
\* created, with the memory of the block its alloc call returned and with
\* offset equal to that block's range start; after a successful bind the
\* device holds the resource bound at exactly that memory and offset.
C6_BindAtRangeStart ==
    \A a \in Allocators :
        \A i \in DOMAIN op[a].calls :
            op[a].calls[i].fn = "bind" =>
                /\ i = 4
                /\ op[a].calls[1].fn = "create" /\ op[a].calls[1].ok
                /\ op[a].calls[3].fn = "alloc" /\ op[a].calls[3].ok
                /\ op[a].calls[4].raw = op[a].calls[1].raw
                /\ op[a].calls[4].mem = BlockMemory(op[a].calls[3].block)
                /\ op[a].calls[4].offset = BlockRange(op[a].calls[3].block).start
                /\ op[a].calls[4].ok =>
                      /\ resources[op[a].calls[1].raw].state = "bound"
                      /\ resources[op[a].calls[1].raw].mem = BlockMemory(op[a].calls[3].block)
                      /\ resources[op[a].calls[1].raw].offset = op[a].calls[3].block.start

C6_Witness ==
    \E a \in Allocators :
        /\ Done(a) /\ op[a].result.tag = "Ok"
        /\ op[a].calls[4].fn = "bind" /\ op[a].calls[4].offset > 0

\* C7: every Item a caller owns holds the raw resource that was bound to
\* the Item's block: the device has that raw resource bound at the memory
\* and the range start of the block.
C7_PairingImmutable ==
    \A it \in items :
        /\ resources[it.raw].state = "bound"
        /\ resources[it.raw].mem = Item_memory(it)
        /\ resources[it.raw].offset = Item_range(it).start

\* C8: destroy consumes the Item: while and after a destroy runs, no caller
\* owns the Item, no owned Item holds a destroyed raw resource or a freed
\* block, and no raw resource is destroyed twice nor any block freed twice.
C8_DestroyedAtMostOnce ==
    /\ \A r \in RawIds : resources[r].destroys <= 1
    /\ \A b \in BlockIds : freeCount[b] <= 1
    /\ \A it \in items : resources[it.raw].state # "destroyed" /\ freeCount[it.block.id] = 0
    /\ \A a \in Allocators : (Destroying(a) /\ pc[a] \in {"destroyed", "done"}) =>
          op[a].item \notin items

C8_Witness ==
    \E a \in Allocators : Done(a) /\ op[a].name = "destroy_image" /\ items # {}

\* C9: when alloc fails the operation has made no destroy call and the raw
\* resource is alive on the device with no Item holding it; a raw resource
\* that is alive, unbound and not in the hands of a running create stays so
\* in every later step.
Orphan(r) ==
    /\ resources[r].state = "unbound"
    /\ \A a \in Allocators : ~(pc[a] \in {"created", "queried", "allocated"} /\ op[a].raw = r)

AllocFailureLeaks ==
    \A a \in Allocators :
        Failed(a, "alloc") =>
            /\ \A i \in DOMAIN op[a].calls : op[a].calls[i].fn # "destroy"
            /\ resources[op[a].raw].destroys = 0
            /\ Orphan(op[a].raw)
            /\ \A it \in items : it.raw # op[a].raw

C9_NoRollback ==
    [][AllocFailureLeaks' /\ \A r \in RawIds : Orphan(r) => Orphan(r)']_vars

C9_Witness ==
    \E a \in Allocators, r \in RawIds :
        /\ Orphan(r)
        /\ Done(a) /\ Destroying(a)

\* C10: a failed bind call always ends the operation in a panic: there is
\* neither an Ok nor an Err result, no Item, and the block has not been
\* freed nor the raw resource destroyed.
C10_BindFailureIsFatal ==
    \A a \in Allocators :
        Failed(a, "bind") =>
            /\ pc[a] = "panicked"
            /\ op[a].result.tag \notin {"Ok", "Err"}
            /\ op[a].result.item = NoItem
            /\ Fns(a) = <<"create", "requirements", "alloc", "bind">>
            /\ op[a].block \in allocated[a]
            /\ freeCount[op[a].block.id] = 0
            /\ resources[op[a].raw].state = "unbound"
            /\ resources[op[a].raw].destroys = 0
            /\ \A it \in items : it.raw # op[a].raw /\ it.block # op[a].block

C10_Witness ==
    \E a \in Allocators : pc[a] = "panicked" /\ op[a].name = "create_buffer"

\* C11: the calls of a create are a prefix of create, requirements, alloc,
\* bind, each made once and in that order, and all four when it returns Ok;
\* the requirements query is on the raw resource the create call returned,
\* alloc gets the caller's request and the requirements that query returned,
\* and a failed call is the last call of its operation.
CreateSequence == <<"create", "requirements", "alloc", "bind">>

C11_FourCallsInOrder ==
    \A a \in Allocators :
        Creating(a) =>
            /\ Len(op[a].calls) <= 4
            /\ Fns(a) = SubSeq(CreateSequence, 1, Len(op[a].calls))
            /\ op[a].result.tag = "Ok" =>
                  /\ Len(op[a].calls) = 4
                  /\ \A i \in 1..4 : op[a].calls[i].ok
            /\ \A i \in DOMAIN op[a].calls : ~op[a].calls[i].ok => i = Len(op[a].calls)
            /\ Len(op[a].calls) >= 2 =>
                  /\ op[a].calls[2].raw = op[a].calls[1].raw
                  /\ op[a].calls[2].reqs = DeviceRequirements(op[a].calls[1].raw)
            /\ Len(op[a].calls) >= 3 =>
                  /\ op[a].calls[3].request = op[a].request
                  /\ op[a].calls[3].reqs = op[a].calls[2].reqs

C11_Witness ==
    \E a \in Allocators :
        /\ Done(a) /\ op[a].result.tag = "Ok"
        /\ Len(op[a].calls) = 4
        /\ op[a].calls[3].request = "shared"

\* C12: whenever a buffer operation and an image operation of the same
\* family (create or destroy) have seen the same outcomes of their
\* collaborator calls, they have made the same sequence of calls, stand at
\* the same position and have the same kind of result; their errors differ
\* at most in BufferCreationError against ImageCreationError.
Outcomes(a) == [i \in DOMAIN op[a].calls |-> op[a].calls[i].ok]

Family(name) ==
    IF name \in {"create_buffer", "create_image"} THEN "create"
    ELSE IF name \in {"destroy_buffer", "destroy_image"} THEN "destroy"
    ELSE "none"

ErrorKind(tag) ==
    IF tag \in {"BufferCreationError", "ImageCreationError"} THEN "CreationError" ELSE tag

Quiet == \A a \in Allocators : pc[a] \in {"idle", "done"}
Alive == {r \in RawIds : resources[r].state \in {"unbound", "bound"}}

C13_Accounting ==
    (Quiet /\ ~failed) =>
        /\ Alive = {it.raw : it \in items}
        /\ Outstanding = {it.block : it \in items}
        /\ Cardinality(Alive) = Cardinality(items)
        /\ Cardinality(Outstanding) = Cardinality(items)
        /\ \A it \in items : resources[it.raw].state = "bound" /\ freeCount[it.block.id] = 0
        /\ \A b \in Outstanding : \A c \in Outstanding : b # c => ~Overlaps(b, c)
        /\ items = {} => Alive = {} /\ Outstanding = {}

C13_Witness ==
    /\ Quiet /\ ~failed
    /\ items = {}
    /\ Cardinality({r \in RawIds : resources[r].state = "destroyed"}) >= 2

\* C14: a destroy step touches only the Item it consumed: the device
\* destroy is called with that Item's raw resource and changes no other raw
\* resource, the free is called with that Item's block and releases no
\* other block, and every Item the callers still own is unchanged, with its
\* raw resource bound and its block outstanding.
DestroyStep(a) == pc[a] = "idle" /\ pc'[a] = "destroyed"
FreeStep(a) == pc[a] = "destroyed" /\ pc'[a] = "done"

C14_DestroyFrame ==
    [][\A a \in Allocators :
        /\ DestroyStep(a) =>
              /\ op'[a].item \in items
              /\ items' = items \ {op'[a].item}
              /\ Len(op'[a].calls) = 1
              /\ op'[a].calls[1].fn = "destroy"
              /\ op'[a].calls[1].raw = op'[a].item.raw
              /\ \A r \in RawIds \ {op'[a].item.raw} : resources'[r] = resources[r]
              /\ allocated' = allocated
              /\ freeCount' = freeCount
        /\ FreeStep(a) =>
              /\ Len(op'[a].calls) = 2
              /\ op'[a].calls[2].fn = "free"
              /\ op'[a].calls[2].block = op[a].item.block
              /\ allocated' = [allocated EXCEPT ![a] = @ \ {op[a].item.block}]
              /\ \A b \in BlockIds \ {op[a].item.block.id} : freeCount'[b] = freeCount[b]
              /\ resources' = resources
              /\ items' = items
        /\ (DestroyStep(a) \/ FreeStep(a)) =>
              \A it \in items' :
                  /\ it \in items
                  /\ resources'[it.raw] = resources[it.raw]
                  /\ resources'[it.raw].state = "bound"
                  /\ it.block \in UNION {allocated'[c] : c \in Allocators}
                  /\ freeCount'[it.block.id] = 0
      ]_vars

C14_Witness ==
    \E a \in Allocators : Done(a) /\ Destroying(a) /\ Cardinality(items) = 2

\* C15: the calls of one allocator's operations never interleave: an
\* operation makes its first call only when no operation of that allocator
\* is in flight, every further call extends that same operation, and its
\* locals go only when it has returned.  With two allocators working call
\* by call on the one device, a block leaves an allocator only through the
\* free call of that allocator's own destroy, which names that block, and
\* only after that destroy has had the device destroy the raw resource the
\* block was allocated for and bound to (the block's serial is the id of
\* that raw resource).
InFlight(a) == pc[a] \in {"created", "queried", "allocated", "destroyed"}

OneOperationAtATime(a) ==
    op'[a] # op[a] =>
        /\ \/ pc[a] = "idle" /\ Len(op'[a].calls) = 1
           \/ /\ InFlight(a)
              /\ op'[a].name = op[a].name
              /\ Len(op'[a].calls) = Len(op[a].calls) + 1
              /\ SubSeq(op'[a].calls, 1, Len(op[a].calls)) = op[a].calls
           \/ pc[a] = "done" /\ op'[a] = NoOp
        /\ \A b \in Allocators \ {a} : op'[b] = op[b] /\ pc'[b] = pc[b]

FreedByOwnDestroy(a) ==
    /\ \/ allocated'[a] \subseteq allocated[a]
       \/ Cardinality(allocated'[a] \ allocated[a]) = 1 /\ pc'[a] = "allocated"
    /\ \A b \in allocated[a] \ allocated'[a] :
          /\ FreeStep(a)
          /\ Destroying(a)
          /\ BlockMemory(b) = a
          /\ b = op[a].item.block
          /\ Fns(a) = <<"destroy">>
          /\ op[a].calls[1].raw = op[a].item.raw
          /\ b.id = op[a].item.raw
          /\ resources[b.id].state = "destroyed"
    /\ FreeStep(a) =>
          /\ op[a].item.block \in allocated[a]
          /\ op'[a].calls[2].block = op[a].item.block
          /\ \A c \in Allocators \ {a} : allocated'[c] = allocated[c]

====
